---- MODULE Spec2Model ----
(***************************************************************************)
(* Itinerary generator: the request handler (fetch), its background task   *)
(* (processItinerary), the generation client (generateItinerary under      *)
(* retryWithBackoff), the request/itinerary schemas and the Firestore      *)
(* client's writes, as one state machine.                                  *)
(*                                                                         *)
(* JavaScript values are tagged records, so that null, strings, numbers,   *)
(* dates, arrays and objects stay distinct values:                         *)
(*   Undefined, Null, Str(s), Num(n) (the integer n), NumHalf(n) (n+0.5),  *)
(*   Date(t), Arr(<<..>>), Obj([k |-> v, ..]).                             *)
(***************************************************************************)
EXTENDS Integers, Sequences, FiniteSets, TLC

(***************************************************************************)
(* Bounds of the model.                                                    *)
(***************************************************************************)
\* the clock (Date.now) runs from 0 to MaxClock
MaxClock == 1
\* durationDays probed by the validation specification: -1 .. MaxProbe
MaxProbe == 32

(***************************************************************************)
(* Program constants.                                                      *)
(***************************************************************************)
\* llm.js:111  retryWithBackoff(generateFn, 3, 2000, RetryableError)
maxRetries == 3
baseDelay == 2000
\* types.js:9-10  .min(1, ...).max(30, ...)
MinDuration == 1
MaxDuration == 30

(***************************************************************************)
(* JavaScript values.                                                      *)
(***************************************************************************)
Undefined == [type |-> "undefined"]
Null == [type |-> "null"]
Str(s) == [type |-> "string", s |-> s]
Num(n) == [type |-> "number", n |-> n, half |-> FALSE]
NumHalf(n) == [type |-> "number", n |-> n, half |-> TRUE]
Date(t) == [type |-> "date", t |-> t]
Bool(b) == [type |-> "boolean", b |-> b]
Arr(a) == [type |-> "array", items |-> a]
Obj(f) == [type |-> "object", fields |-> f]

\* obj[k] of JavaScript: undefined when the key is absent or obj is no object
Field(v, k) ==
  IF v.type = "object" /\ k \in DOMAIN v.fields THEN v.fields[k] ELSE Undefined

\* Number.isInteger(v)
IsInteger(v) == v.type = "number" /\ ~v.half
\* v >= k and v <= k and v > 0 for a number v = n or n + 0.5 and an integer k
NumGeq(v, k) == v.n >= k
NumLeq(v, k) == IF v.half THEN v.n + 1 <= k ELSE v.n <= k
NumPositive(v) == IF v.half THEN v.n >= 0 ELSE v.n > 0

RECURSIVE Concat(_)
Concat(ss) == IF ss = <<>> THEN <<>> ELSE Head(ss) \o Concat(Tail(ss))

RECURSIVE Join(_, _)
Join(ss, sep) ==
  IF ss = <<>> THEN ""
  ELSE IF Len(ss) = 1 THEN ss[1]
  ELSE ss[1] \o sep \o Join(Tail(ss), sep)

(***************************************************************************)
(* types.js: the zod schemas.  Each XIssues operator is the list of issue  *)
(* messages zod collects for a value; a value parses when it is empty.     *)
(***************************************************************************)
\* zod's message for a value of the wrong type
InvalidType(expected, v) ==
  IF v.type = "undefined" THEN "Required"
  ELSE "Expected " \o expected \o ", received " \o v.type

\* z.string().min(1, msg)
StringMin1Issues(v, msg) ==
  IF v.type # "string" THEN <<InvalidType("string", v)>>
  ELSE IF v.s = "" THEN <<msg>> ELSE <<>>

\* DurationIssues with the upper limit excluded (< instead of <=)
DurationIssues_MaxExclusive(v) ==
  IF v.type # "number" THEN <<InvalidType("number", v)>>
  ELSE (IF ~IsInteger(v) THEN <<"Expected integer, received float">> ELSE <<>>)
       \o (IF ~NumGeq(v, MinDuration)
           THEN <<"Duration must be at least 1 day">> ELSE <<>>)
       \o (IF ~NumLeq(v, MaxDuration - 1)
           THEN <<"Duration cannot exceed 30 days">> ELSE <<>>)

\* z.number().int().min(1, ..).max(30, ..)
DurationIssues(v) ==
  IF v.type # "number" THEN <<InvalidType("number", v)>>
  ELSE (IF ~IsInteger(v) THEN <<"Expected integer, received float">> ELSE <<>>)
       \o (IF ~NumGeq(v, MinDuration)
           THEN <<"Duration must be at least 1 day">> ELSE <<>>)
       \o (IF ~NumLeq(v, MaxDuration)
           THEN <<"Duration cannot exceed 30 days">> ELSE <<>>)

Prefixed(path, issues) == [i \in 1..Len(issues) |-> path \o ": " \o issues[i]]

\* RequestSchema.parse(body): the issues, each as "path: message"
RequestIssues(body) ==
  IF body.type # "object" THEN <<": " \o InvalidType("object", body)>>
  ELSE Prefixed("destination",
                StringMin1Issues(Field(body, "destination"),
                                 "Destination is required"))
       \o Prefixed("durationDays", DurationIssues(Field(body, "durationDays")))

\* RequestSchema.parse(body): the validated request (unknown keys stripped)
RequestSchemaParse(body) ==
  IF RequestIssues(body) = <<>>
  THEN [ok |-> TRUE,
        destination |-> Field(body, "destination").s,
        durationDays |-> Field(body, "durationDays").n]
  ELSE [ok |-> FALSE, issues |-> RequestIssues(body)]

TimeSlots == {"Morning", "Afternoon", "Evening"}

\* ActivitySchema
ActivityIssues(a) ==
  IF a.type # "object" THEN <<InvalidType("object", a)>>
  ELSE (LET t == Field(a, "time") IN
        IF t.type = "undefined" THEN <<"Required">>
        ELSE IF t.type # "string" \/ t.s \notin TimeSlots
             THEN <<"Invalid enum value">> ELSE <<>>)
       \o StringMin1Issues(Field(a, "description"), "Description is required")
       \o StringMin1Issues(Field(a, "location"), "Location is required")

\* z.array(ActivitySchema).min(1, ..)
ActivitiesIssues(v) ==
  IF v.type # "array" THEN <<InvalidType("array", v)>>
  ELSE (IF Len(v.items) < 1
        THEN <<"At least one activity is required">> ELSE <<>>)
       \o Concat([i \in 1..Len(v.items) |-> ActivityIssues(v.items[i])])

\* z.number().int().positive()
DayNumberIssues(v) ==
  IF v.type # "number" THEN <<InvalidType("number", v)>>
  ELSE (IF ~IsInteger(v) THEN <<"Expected integer, received float">> ELSE <<>>)
       \o (IF ~NumPositive(v)
           THEN <<"Number must be greater than 0">> ELSE <<>>)

\* DaySchema
DayIssues(d) ==
  IF d.type # "object" THEN <<InvalidType("object", d)>>
  ELSE DayNumberIssues(Field(d, "day"))
       \o StringMin1Issues(Field(d, "theme"), "Theme is required")
       \o ActivitiesIssues(Field(d, "activities"))

\* ItinerarySchema = z.array(DaySchema).min(1, ..)
ItineraryIssues(v) ==
  IF v.type # "array" THEN <<InvalidType("array", v)>>
  ELSE (IF Len(v.items) < 1 THEN <<"At least one day is required">> ELSE <<>>)
       \o Concat([i \in 1..Len(v.items) |-> DayIssues(v.items[i])])

\* the parsed output of a valid value: z.object keeps only the schema's keys
StripActivity(a) ==
  Obj([time |-> Field(a, "time"),
       description |-> Field(a, "description"),
       location |-> Field(a, "location")])

StripDay(d) ==
  Obj([day |-> Field(d, "day"),
       theme |-> Field(d, "theme"),
       activities |->
         Arr([i \in 1..Len(Field(d, "activities").items) |->
                StripActivity(Field(d, "activities").items[i])])])

\* ItinerarySchema.parse(v)
ItinerarySchemaParse(v) ==
  IF ItineraryIssues(v) = <<>>
  THEN [ok |-> TRUE,
        value |-> Arr([i \in 1..Len(v.items) |-> StripDay(v.items[i])])]
  ELSE [ok |-> FALSE, message |-> Join(ItineraryIssues(v), "; ")]

(***************************************************************************)
(* firestore.js: FirestoreClient.convertToFirestoreFields.  A wire value   *)
(* is a record with the one key that is its tag.                           *)
(***************************************************************************)
\* Date.prototype.toISOString of the instant t
ISOString(t) == "1970-01-01T00:00:0" \o ToString(t) \o ".000Z"

\* Object.entries(v) as a map from key to value: an array has its indices
\* as keys, a Date has no entries
Entries(v) ==
  IF v.type = "object" THEN v.fields
  ELSE IF v.type = "array"
       THEN [k \in {ToString(i - 1) : i \in 1..Len(v.items)} |->
               v.items[CHOOSE i \in 1..Len(v.items) : ToString(i - 1) = k]]
       ELSE <<>>

\* what JSON.stringify writes for an array element that is undefined
WireJsonNull == [jsonNull |-> TRUE]

RECURSIVE convertToFirestoreFields(_)
RECURSIVE EncodeValue(_)

\* lines 146-154: an array element
EncodeItem(item) ==
  IF item.type \in {"object", "array", "date"}
  THEN [mapValue |-> [fields |-> convertToFirestoreFields(Entries(item))]]
  ELSE IF item.type = "undefined" THEN WireJsonNull
  ELSE EncodeValue(item)

\* lines 129-163: the branch taken for one value that is not undefined
EncodeValue(v) ==
  CASE v.type = "null" -> [nullValue |-> "null"]
    [] v.type = "string" -> [stringValue |-> v.s]
    [] v.type = "number" ->
         IF IsInteger(v) THEN [integerValue |-> ToString(v.n)]
         ELSE [doubleValue |-> v]
    [] v.type = "boolean" -> [booleanValue |-> v.b]
    [] v.type = "date" -> [timestampValue |-> ISOString(v.t)]
    [] v.type = "array" ->
         [arrayValue |->
            [values |-> [i \in 1..Len(v.items) |-> EncodeItem(v.items[i])]]]
    [] v.type = "object" ->
         [mapValue |-> [fields |-> convertToFirestoreFields(v.fields)]]

\* a key whose value matches no branch (undefined) gets no entry
convertToFirestoreFields(obj) ==
  [k \in {key \in DOMAIN obj : obj[key].type # "undefined"} |->
     EncodeValue(obj[k])]

(***************************************************************************)
(* firestore.js: the requests createDocument and updateDocument send, and  *)
(* what the store does with a request it applies.                          *)
(***************************************************************************)
\* lines 17-31
createDocumentRequest(docId, data) ==
  [docId |-> docId, fields |-> convertToFirestoreFields(data)]

\* the field names of a job document
JobFieldNames ==
  {"status", "destination", "durationDays", "createdAt", "completedAt",
   "itinerary", "error"}

\* the update sent without a field mask: the store then replaces the whole
\* document by the fields sent
updateDocumentRequest_NoMask(docId, data) ==
  [docId |-> docId,
   updateMask |-> JobFieldNames \cup DOMAIN data,
   fields |-> convertToFirestoreFields(data)]

\* lines 55-75: the update mask names the keys of data
updateDocumentRequest(docId, data) ==
  [docId |-> docId,
   updateMask |-> DOMAIN data,
   fields |-> convertToFirestoreFields(data)]

NoDoc == [exists |-> FALSE]
StoredDoc(fields) == [exists |-> TRUE, fields |-> fields]

\* the store applying a create
ApplyCreate(st, request) ==
  [st EXCEPT ![request.docId] = StoredDoc(request.fields)]

\* the store applying a PATCH with an update mask: a field named in the
\* mask takes the value sent for it (and is removed when none is sent), a
\* field not named in the mask keeps its value
ApplyPatch(st, request) ==
  LET old == IF st[request.docId].exists
             THEN st[request.docId].fields ELSE <<>>
      keys == (DOMAIN old \ request.updateMask)
              \cup (request.updateMask \cap DOMAIN request.fields)
  IN [st EXCEPT ![request.docId] =
        StoredDoc([k \in keys |->
                     IF k \in request.updateMask
                     THEN request.fields[k] ELSE old[k]])]

\* The answers of the store to a write.  A write can be applied although
\* the client sees an error: the response is lost on the way back (fetch
\* rejects) or its body cannot be read (response.json() rejects).
StoreAnswerOk == [applied |-> TRUE, kind |-> "http", status |-> 200, body |-> "{}"]
StoreAnswerUnavailable ==
  [applied |-> FALSE, kind |-> "http", status |-> 503, body |-> "unavailable"]
StoreAnswerLost == [applied |-> TRUE, kind |-> "reject"]
StoreAnswers == {StoreAnswerOk, StoreAnswerUnavailable, StoreAnswerLost}
\* a create with the id of a document that exists is refused
StoreAnswerConflict ==
  [applied |-> FALSE, kind |-> "http", status |-> 409, body |-> "already exists"]
\* the answers of the store to the handler's create of document doc
JobCreateAnswers(doc) ==
  IF doc.exists THEN {StoreAnswerConflict, StoreAnswerUnavailable}
  ELSE StoreAnswers

\* the message of the error a rejected fetch or response.json() carries
FetchErrorMessage == "fetch failed"

ResponseOk(answer) ==
  answer.kind = "http" /\ answer.status >= 200 /\ answer.status <= 299

Return(v) == [kind |-> "return", value |-> v]
Throw(retryable, message) ==
  [kind |-> "throw", retryable |-> retryable, message |-> message]

\* createDocument without its check of response.ok
createDocumentResult_NoStatusCheck(answer) ==
  IF answer.kind = "reject" THEN Throw(FALSE, FetchErrorMessage)
  ELSE Return(answer.body)

\* lines 33-46: what createDocument does with the store's answer
createDocumentResult(answer) ==
  IF answer.kind = "reject" THEN Throw(FALSE, FetchErrorMessage)
  ELSE IF ~ResponseOk(answer)
       THEN Throw(FALSE, "Firestore create error: " \o ToString(answer.status)
                         \o " - " \o answer.body)
       ELSE Return(answer.body)

\* lines 77-90: what updateDocument does with the store's answer
updateDocumentResult(answer) ==
  IF answer.kind = "reject" THEN Throw(FALSE, FetchErrorMessage)
  ELSE IF ~ResponseOk(answer)
       THEN Throw(FALSE, "Firestore update error: " \o ToString(answer.status)
                         \o " - " \o answer.body)
       ELSE Return(answer.body)

(***************************************************************************)
(* llm.js: the generation client.                                          *)
(***************************************************************************)
\* One answer of the generative service to one call.  The text of a 2xx
\* answer is described by what generateFn looks at: whether there is text
\* after trim(), whether indexOf("[") and lastIndexOf("]") find a bracket,
\* and what JSON.parse makes of the extracted substring.
LLMReject == [kind |-> "reject"]
LLMError(status, text) == [kind |-> "http", status |-> status, text |-> text]
LLMNoContent == [kind |-> "http", status |-> 200, content |-> FALSE]
LLMText(open, close, json) ==
  [kind |-> "http", status |-> 200, content |-> TRUE,
   hasOpen |-> open, hasClose |-> close, json |-> json]
NotJSON == [ok |-> FALSE]
JSON(v) == [ok |-> TRUE, value |-> v]

\* generateFn raising a plain Error for server errors (status >= 500)
generateFn_ServerErrorsFatal(answer) ==
  IF answer.kind = "reject" THEN Throw(FALSE, FetchErrorMessage)
  ELSE IF ~ResponseOk(answer)
  THEN IF answer.status = 429
       THEN Throw(TRUE, "OpenAI service error: " \o ToString(answer.status))
       ELSE Throw(FALSE, "OpenAI API error: " \o ToString(answer.status)
                         \o " - " \o answer.text)
  ELSE IF ~answer.content
  THEN Throw(FALSE, "Invalid response structure from OpenAI API")
  ELSE IF ~answer.hasOpen \/ ~answer.hasClose
  THEN Throw(TRUE, "LLM response did not contain a valid JSON array.")
  ELSE IF ~answer.json.ok
  THEN Throw(TRUE, "LLM returned invalid JSON format even after cleaning.")
  ELSE LET parsed == ItinerarySchemaParse(answer.json.value) IN
       IF parsed.ok THEN Return(parsed.value)
       ELSE Throw(TRUE, "Generated itinerary doesn't match required format: "
                        \o parsed.message)

\* generateFn raising a RetryableError for every non-2xx response and for
\* missing content
generateFn_EveryErrorRetryable(answer) ==
  IF answer.kind = "reject" THEN Throw(FALSE, FetchErrorMessage)
  ELSE IF ~ResponseOk(answer)
  THEN Throw(TRUE, "OpenAI service error: " \o ToString(answer.status))
  ELSE IF ~answer.content
  THEN Throw(TRUE, "Invalid response structure from OpenAI API")
  ELSE IF ~answer.hasOpen \/ ~answer.hasClose
  THEN Throw(TRUE, "LLM response did not contain a valid JSON array.")
  ELSE IF ~answer.json.ok
  THEN Throw(TRUE, "LLM returned invalid JSON format even after cleaning.")
  ELSE LET parsed == ItinerarySchemaParse(answer.json.value) IN
       IF parsed.ok THEN Return(parsed.value)
       ELSE Throw(TRUE, "Generated itinerary doesn't match required format: "
                        \o parsed.message)

\* generateFn returning the parsed JSON without the schema check
generateFn_SkipsValidation(answer) ==
  IF answer.kind = "reject" THEN Throw(FALSE, FetchErrorMessage)
  ELSE IF ~ResponseOk(answer)
  THEN IF answer.status = 429 \/ answer.status >= 500
       THEN Throw(TRUE, "OpenAI service error: " \o ToString(answer.status))
       ELSE Throw(FALSE, "OpenAI API error: " \o ToString(answer.status)
                         \o " - " \o answer.text)
  ELSE IF ~answer.content
  THEN Throw(FALSE, "Invalid response structure from OpenAI API")
  ELSE IF ~answer.hasOpen \/ ~answer.hasClose
  THEN Throw(TRUE, "LLM response did not contain a valid JSON array.")
  ELSE IF ~answer.json.ok
  THEN Throw(TRUE, "LLM returned invalid JSON format even after cleaning.")
  ELSE Return(answer.json.value)

\* lines 18-109: one invocation of generateFn, given the service's answer
generateFn(answer) ==
  IF answer.kind = "reject" THEN Throw(FALSE, FetchErrorMessage)
  ELSE IF ~ResponseOk(answer)
  THEN IF answer.status = 429 \/ answer.status >= 500
       THEN Throw(TRUE, "OpenAI service error: " \o ToString(answer.status))
       ELSE Throw(FALSE, "OpenAI API error: " \o ToString(answer.status)
                         \o " - " \o answer.text)
  ELSE IF ~answer.content
  THEN Throw(FALSE, "Invalid response structure from OpenAI API")
  ELSE IF ~answer.hasOpen \/ ~answer.hasClose
  THEN Throw(TRUE, "LLM response did not contain a valid JSON array.")
  ELSE IF ~answer.json.ok
  THEN Throw(TRUE, "LLM returned invalid JSON format even after cleaning.")
  ELSE LET parsed == ItinerarySchemaParse(answer.json.value) IN
       IF parsed.ok THEN Return(parsed.value)
       ELSE Throw(TRUE, "Generated itinerary doesn't match required format: "
                        \o parsed.message)

\* the delay factor growing by one per attempt instead of doubling
Pow2_Linear(k) == k + 1

RECURSIVE Pow2(_)
Pow2(k) == IF k = 0 THEN 1 ELSE 2 * Pow2(k - 1)

\* retryDecision sleeping after the last attempt as well (<= for <)
retryDecision_SleepsAfterLast(error, attempt, retries, delay0) ==
  IF error.retryable /\ attempt <= retries
  THEN [do |-> "sleep", delay |-> delay0 * Pow2(attempt)]
  ELSE [do |-> "throw"]

\* retryDecision retrying after every error, whatever its class
retryDecision_AnyError(error, attempt, retries, delay0) ==
  IF attempt < retries
  THEN [do |-> "sleep", delay |-> delay0 * Pow2(attempt)]
  ELSE [do |-> "throw"]

\* firestore.js lines 387-401: the catch block of retryWithBackoff, for the
\* error of invocation number attempt (counted from 0)
retryDecision(error, attempt, retries, delay0) ==
  IF error.retryable /\ attempt < retries
  THEN [do |-> "sleep", delay |-> delay0 * Pow2(attempt)]
  ELSE [do |-> "throw"]

(***************************************************************************)
(* The itineraries the generative service answers with in this model.      *)
(***************************************************************************)
Activity(slot) ==
  Obj([time |-> Str(slot), description |-> Str("Visit"), location |-> Str("Gion")])
ThreeSlots == Arr(<<Activity("Morning"), Activity("Afternoon"), Activity("Evening")>>)
Day(n, activities) ==
  Obj([day |-> n, theme |-> Str("Temples"), activities |-> activities])

\* accepted by ItinerarySchema
ItineraryOneDay == Arr(<<Day(Num(1), ThreeSlots)>>)
ItineraryFourDays ==
  Arr(<<Day(Num(1), ThreeSlots), Day(Num(2), ThreeSlots),
        Day(Num(3), ThreeSlots), Day(Num(4), ThreeSlots)>>)
ItineraryMorningOnly == Arr(<<Day(Num(1), Arr(<<Activity("Morning")>>))>>)
ItineraryMisnumbered ==
  Arr(<<Day(Num(2), ThreeSlots), Day(Num(2), ThreeSlots)>>)
\* rejected by ItinerarySchema
ItineraryEmpty == Arr(<<>>)
ItineraryNoArray == Obj([days |-> ItineraryOneDay])
ItineraryDayZero == Arr(<<Day(Num(0), ThreeSlots)>>)
ItineraryBadSlot == Arr(<<Day(Num(1), Arr(<<Activity("Night")>>))>>)

LLMItineraries ==
  {ItineraryOneDay, ItineraryFourDays, ItineraryMorningOnly,
   ItineraryMisnumbered, ItineraryEmpty, ItineraryNoArray, ItineraryDayZero,
   ItineraryBadSlot}

LLMAnswers ==
  {LLMReject, LLMError(401, "unauthorized"), LLMError(429, "rate limit"),
   LLMError(500, "server error"), LLMNoContent,
   LLMText(FALSE, FALSE, NotJSON), LLMText(TRUE, TRUE, NotJSON)}
  \cup {LLMText(TRUE, TRUE, JSON(v)) : v \in LLMItineraries}

(***************************************************************************)
(* The handler (unnamed/part_002, the worker's index.js) and its utils.    *)
(***************************************************************************)
\* the inbound requests of a run, and the ids generateUUID can mint
Requests == {"r1", "r2"}
\* the requests that arrive under Spec: a single one
Served == {"r1"}
DocIds == {"id1", "id2"}
NoId == "none"

\* utils: validateEnvironment, lines 410-423 of firestore.js
RequiredEnv == <<"FIREBASE_SERVICE_ACCOUNT", "FIREBASE_PROJECT_ID", "OPENAI_API_KEY">>
MissingEnv(e) == SelectSeq(RequiredEnv, LAMBDA key : e[key] = "")
EnvValid(e) == Len(MissingEnv(e)) = 0
MissingEnvMessage(e) ==
  "Missing required environment variables: " \o Join(MissingEnv(e), ", ")

\* the deployments: each secret is unset ("") or set; the service account
\* secret is set to the JSON of a key or to text that is no JSON
Environments ==
  [FIREBASE_SERVICE_ACCOUNT : {"", "not json", "{service account}"},
   FIREBASE_PROJECT_ID : {"", "project"},
   OPENAI_API_KEY : {"", "sk-key"}]

\* utils: createErrorResponse and createSuccessResponse, lines 442-471
createErrorResponse(message, status, details) ==
  [status |-> status,
   body |-> IF details # "" THEN [error |-> message, details |-> details]
            ELSE [error |-> message]]
createSuccessResponse(data, status) == [status |-> status, body |-> data]
NoResponse == [status |-> 0]

\* request bodies: text that is no JSON, or the value request.json() gives
InvalidJSON == [json |-> FALSE]
Body(v) == [json |-> TRUE, value |-> v]
\* the object with the given destination and durationDays; Undefined
\* stands for an absent key
RequestObject(d, n) ==
  Obj([k \in {key \in {"destination", "durationDays"} :
                (IF key = "destination" THEN d ELSE n) # Undefined} |->
         IF k = "destination" THEN d ELSE n])

Methods == {"POST", "OPTIONS", "GET"}
Destinations == {Str("Kyoto, Japan"), Str(""), Undefined}
Durations == {Num(0), Num(1), Num(4), Num(31), NumHalf(1), Undefined}
Bodies ==
  {InvalidJSON, Body(Null)}
  \cup {Body(RequestObject(d, n)) : d \in Destinations, n \in Durations}

\* the answers of the token endpoint to one exchange
TokenAnswers ==
  {[kind |-> "http", status |-> 200, access_token |-> "token"],
   [kind |-> "http", status |-> 400, body |-> "invalid_grant"]}

\* getAccessToken raising the same error for every failed exchange
getAccessTokenResult_ErrorWithoutStatus(serviceAccountKey, answer) ==
  IF serviceAccountKey = "" THEN Throw(FALSE, "Service account key is missing")
  ELSE IF serviceAccountKey = "not json"
  THEN Throw(FALSE, "Unexpected token in JSON")
  ELSE IF serviceAccountKey = "{no private_key}"
  THEN Throw(FALSE, "Cannot read properties of undefined (reading 'replace')")
  ELSE IF answer.kind = "reject" THEN Throw(FALSE, FetchErrorMessage)
  ELSE IF ~ResponseOk(answer) THEN Throw(FALSE, "Token exchange failed")
  ELSE Return(answer.access_token)

\* firestore.js lines 210-276, getAccessToken: the credential is parsed
\* (line 218) and the JWT signed (line 243) before the exchange is sent; a
\* key that is JSON without a private_key fails in signJWT (line 302)
getAccessTokenResult(serviceAccountKey, answer) ==
  IF serviceAccountKey = "" THEN Throw(FALSE, "Service account key is missing")
  ELSE IF serviceAccountKey = "not json"
  THEN Throw(FALSE, "Unexpected token in JSON")
  ELSE IF serviceAccountKey = "{no private_key}"
  THEN Throw(FALSE, "Cannot read properties of undefined (reading 'replace')")
  ELSE IF answer.kind = "reject" THEN Throw(FALSE, FetchErrorMessage)
  ELSE IF ~ResponseOk(answer)
  THEN Throw(FALSE, "Token exchange failed: " \o ToString(answer.status)
                    \o " - " \o answer.body)
  ELSE Return(answer.access_token)

\* the initial document with completedAt set at creation
InitialDocument_CompletedAtSet(destination, durationDays, now) ==
  [status |-> Str("processing"),
   destination |-> Str(destination),
   durationDays |-> Num(durationDays),
   createdAt |-> Date(now),
   completedAt |-> Date(now),
   itinerary |-> Null,
   error |-> Null]

\* lines 72-80: the initial document
InitialDocument(destination, durationDays, now) ==
  [status |-> Str("processing"),
   destination |-> Str(destination),
   durationDays |-> Num(durationDays),
   createdAt |-> Date(now),
   completedAt |-> Null,
   itinerary |-> Null,
   error |-> Null]

\* the completed update taking durationDays from the itinerary's length
CompletedUpdate_DaysFromItinerary(destination, durationDays, now, itin) ==
  [status |-> Str("completed"),
   destination |-> Str(destination),
   durationDays |-> Num(Len(itin.items)),
   completedAt |-> Date(now),
   itinerary |-> itin,
   error |-> Null]

\* lines 130-137: the fields of the completed update
CompletedUpdate(destination, durationDays, now, itin) ==
  [status |-> Str("completed"),
   destination |-> Str(destination),
   durationDays |-> Num(durationDays),
   completedAt |-> Date(now),
   itinerary |-> itin,
   error |-> Null]

\* the failed update without its status field
FailedUpdate_NoStatus(now, message) ==
  [completedAt |-> Date(now),
   error |-> Str(message)]

\* lines 146-150: the fields of the failed update
FailedUpdate(now, message) ==
  [status |-> Str("failed"),
   completedAt |-> Date(now),
   error |-> Str(message)]

(***************************************************************************)
(* State.                                                                  *)
(***************************************************************************)
VARIABLES
  env,         \* the worker's secrets
  clock,       \* Date.now()
  store,       \* the itineraries collection: document id -> stored document
  hpc,         \* per request: where the handler stands
  req,         \* per request: the method and body received
  validated,   \* per request: validatedRequest (destination, durationDays)
  jobId,       \* per request: the id generateUUID returned
  response,    \* per request: the Response the handler returned
  created,     \* history: how the handler's createDocument call ended
  inflight,    \* per request: the store write that is awaited
  tpc,         \* per request: where processItinerary stands
  attempt,     \* per request: retryWithBackoff's attempt
  lastError,   \* per request: retryWithBackoff's lastError
  itinerary,   \* per request: processItinerary's itinerary
  caught,      \* per request: the error caught at line 142
  waits,       \* history: the delays slept, in order
  calls,       \* history: the generation calls that have returned
  genRaised,   \* history: the error the latest generateFn invocation raised
  generation,  \* history: how generateItinerary ended
  updates,     \* history: the updates that returned, with the store's answer
  probe        \* the validation specification: input and result

hvars == <<hpc, req, validated, jobId, response, created>>
tvars == <<tpc, attempt, lastError, itinerary, caught, waits, calls,
           genRaised, generation, updates>>
vars == <<env, clock, store, hvars, inflight, tvars, probe>>

NoRequest == [method |-> "none"]
NoValidated == [ok |-> FALSE]
NoWrite == [docId |-> NoId]
NoError == [kind |-> "none"]
NoProbe == [phase |-> "off"]

InitJobs ==
  /\ clock = 0
  /\ store = [id \in DocIds |-> NoDoc]
  /\ hpc = [r \in Requests |-> "idle"]
  /\ req = [r \in Requests |-> NoRequest]
  /\ validated = [r \in Requests |-> NoValidated]
  /\ jobId = [r \in Requests |-> NoId]
  /\ response = [r \in Requests |-> NoResponse]
  /\ created = [r \in Requests |-> "none"]
  /\ inflight = [r \in Requests |-> NoWrite]
  /\ tpc = [r \in Requests |-> "none"]
  /\ attempt = [r \in Requests |-> 0]
  /\ lastError = [r \in Requests |-> NoError]
  /\ itinerary = [r \in Requests |-> Undefined]
  /\ caught = [r \in Requests |-> NoError]
  /\ waits = [r \in Requests |-> <<>>]
  /\ calls = [r \in Requests |-> 0]
  /\ genRaised = [r \in Requests |-> NoError]
  /\ generation = [r \in Requests |-> "none"]
  /\ updates = [r \in Requests |-> <<>>]

Init ==
  /\ env \in Environments
  /\ InitJobs
  /\ probe = NoProbe

(***************************************************************************)
(* Actions.  An action is the code that runs between two awaits: nothing   *)
(* else runs in between on the worker's single thread.                     *)
(***************************************************************************)
\* the clock advances
Tick ==
  /\ clock < MaxClock
  /\ clock' = clock + 1
  /\ UNCHANGED <<env, store, hvars, inflight, tvars, probe>>

\* generateUUID, firestore.js lines 358-364: an id built from Math.random
\* digits; nothing keeps it apart from the ids given out before
generateUUID == DocIds

\* the handler's catch answering without the error's message
handlerCatch_NoDetails(error) ==
  createErrorResponse("Internal server error occurred", 500, "")

\* lines 91-99: the handler's catch
handlerCatch(error) ==
  createErrorResponse("Internal server error occurred", 500, error.message)

\* handlerEntry without the inner try/catch around RequestSchema.parse: the
\* validation error reaches the handler's outer catch
handlerEntry_ValidationUncaught(method, body, e) ==
  IF method = "OPTIONS"
  THEN [respond |-> TRUE, response |-> [status |-> 200, body |-> <<>>]]
  ELSE IF method # "POST"
  THEN [respond |-> TRUE,
        response |-> createErrorResponse("Method not allowed. Use POST.", 405, "")]
  ELSE IF ~EnvValid(e)
  THEN [respond |-> TRUE,
        response |-> createErrorResponse("Internal server error occurred", 500,
                                         MissingEnvMessage(e))]
  ELSE IF ~body.json
  THEN [respond |-> TRUE,
        response |-> createErrorResponse("Invalid JSON in request body", 400, "")]
  ELSE LET parsed == RequestSchemaParse(body.value) IN
       IF ~parsed.ok
       THEN [respond |-> TRUE,
             response |-> handlerCatch(Throw(FALSE, Join(parsed.issues, ", ")))]
       ELSE [respond |-> FALSE, validated |-> parsed]

\* lines 16-58 of the handler: the response it returns before it creates
\* anything, or the validated request it goes on with
handlerEntry(method, body, e) ==
  IF method = "OPTIONS"
  THEN [respond |-> TRUE, response |-> [status |-> 200, body |-> <<>>]]
  ELSE IF method # "POST"
  THEN [respond |-> TRUE,
        response |-> createErrorResponse("Method not allowed. Use POST.", 405, "")]
  ELSE IF ~EnvValid(e)
  THEN [respond |-> TRUE,
        response |-> createErrorResponse("Internal server error occurred", 500,
                                         MissingEnvMessage(e))]
  ELSE IF ~body.json
  THEN [respond |-> TRUE,
        response |-> createErrorResponse("Invalid JSON in request body", 400, "")]
  ELSE LET parsed == RequestSchemaParse(body.value) IN
       IF ~parsed.ok
       THEN [respond |-> TRUE,
             response |-> createErrorResponse(
                            "Invalid request: " \o Join(parsed.issues, ", "),
                            400, "")]
       ELSE [respond |-> FALSE, validated |-> parsed]

\* a request arrives: lines 16-65, up to the await of getAccessToken
fetch(r) ==
  /\ hpc[r] = "idle"
  /\ \E method \in Methods, body \in Bodies :
       LET entry == handlerEntry(method, body, env) IN
       /\ method = "POST" \/ body = InvalidJSON
       /\ req' = [req EXCEPT ![r] = [method |-> method, body |-> body]]
       /\ IF entry.respond
          THEN /\ response' = [response EXCEPT ![r] = entry.response]
               /\ hpc' = [hpc EXCEPT ![r] = "done"]
               /\ UNCHANGED <<validated, jobId>>
          ELSE /\ \E id \in generateUUID : jobId' = [jobId EXCEPT ![r] = id]
               /\ validated' = [validated EXCEPT ![r] = entry.validated]
               /\ hpc' = [hpc EXCEPT ![r] = "token"]
               /\ UNCHANGED response
  /\ UNCHANGED <<env, clock, store, created, inflight, tvars, probe>>

\* getAccessToken returns or raises: lines 65-80, up to the await of
\* createDocument
getAccessTokenReturns(r) ==
  /\ hpc[r] = "token"
  /\ \E answer \in TokenAnswers :
       LET result == getAccessTokenResult(env.FIREBASE_SERVICE_ACCOUNT, answer) IN
       IF result.kind = "throw"
       THEN /\ response' = [response EXCEPT ![r] = handlerCatch(result)]
            /\ hpc' = [hpc EXCEPT ![r] = "done"]
            /\ UNCHANGED inflight
       ELSE /\ inflight' =
                 [inflight EXCEPT ![r] =
                    createDocumentRequest(
                      jobId[r],
                      InitialDocument(validated[r].destination,
                                      validated[r].durationDays, clock))]
            /\ hpc' = [hpc EXCEPT ![r] = "create"]
            /\ UNCHANGED response
  /\ UNCHANGED <<env, clock, store, req, validated, jobId, created, tvars,
                 probe>>

\* createDocument returns or raises: lines 72-90.  On success the handler
\* calls processItinerary, which runs up to its first await (the first
\* generation call is sent), hands the promise to ctx.waitUntil and
\* returns the 202 response.
createDocumentReturns(r) ==
  /\ hpc[r] = "create"
  /\ \E answer \in JobCreateAnswers(store[inflight[r].docId]) :
       LET result == createDocumentResult(answer) IN
       /\ store' = IF answer.applied THEN ApplyCreate(store, inflight[r])
                   ELSE store
       /\ created' = [created EXCEPT ![r] = result.kind]
       /\ IF result.kind = "throw"
          THEN /\ response' = [response EXCEPT ![r] = handlerCatch(result)]
               /\ UNCHANGED <<tpc, generation>>
          ELSE /\ tpc' = [tpc EXCEPT ![r] = "gen"]
               /\ generation' = [generation EXCEPT ![r] = "running"]
               /\ response' =
                    [response EXCEPT ![r] =
                       createSuccessResponse([jobId |-> jobId[r]], 202)]
  /\ inflight' = [inflight EXCEPT ![r] = NoWrite]
  /\ hpc' = [hpc EXCEPT ![r] = "done"]
  /\ UNCHANGED <<env, clock, req, validated, jobId, attempt, lastError,
                 itinerary, caught, waits, calls, genRaised, updates, probe>>

\* retryWithBackoff keeping the first error it saw instead of the last
retryThrown_KeepsFirst(previous, error) ==
  IF previous = [kind |-> "none"] THEN error ELSE previous

\* firestore.js lines 388 and 400: the error retryWithBackoff rethrows
retryThrown(previous, error) == error

\* the catch of processItinerary storing one text for every error
catchMessage_Generic(error) == "Itinerary generation failed"

\* line 149 of the handler: the text stored as the job's error
catchMessage(error) == error.message

\* the failed update sent to the id another request holds, as if jobId
\* were kept in one variable of the module
failedUpdateRequest_SharedJobId(r, error) ==
  LET others == {jobId[q] : q \in Requests \ {r}} \ {NoId} IN
  updateDocumentRequest(IF others = {} THEN jobId[r]
                        ELSE CHOOSE id \in others : TRUE,
                        FailedUpdate(clock, catchMessage(error)))

\* the failed update processItinerary sends from its catch, lines 146-150
failedUpdateRequest(r, error) ==
  updateDocumentRequest(jobId[r], FailedUpdate(clock, catchMessage(error)))

\* a generation call returns: generateFn runs to its end, then
\* retryWithBackoff either sleeps, or returns to processItinerary, which
\* sends the completed update (lines 122-137), or rethrows to the catch of
\* processItinerary, which sends the failed update (lines 142-150)
generateFnReturns(r) ==
  /\ tpc[r] = "gen"
  /\ \E answer \in LLMAnswers :
       LET result == generateFn(answer)
           decision == retryDecision(result, attempt[r], maxRetries, baseDelay)
           thrown == retryThrown(lastError[r], result)
       IN
       IF result.kind = "return"
       THEN /\ itinerary' = [itinerary EXCEPT ![r] = result.value]
            /\ generation' = [generation EXCEPT ![r] = "returned"]
            /\ inflight' =
                 [inflight EXCEPT ![r] =
                    updateDocumentRequest(
                      jobId[r],
                      CompletedUpdate(validated[r].destination,
                                      validated[r].durationDays, clock,
                                      result.value))]
            /\ tpc' = [tpc EXCEPT ![r] = "updC"]
            /\ UNCHANGED <<lastError, genRaised, caught, waits>>
       ELSE /\ genRaised' = [genRaised EXCEPT ![r] = result]
            /\ lastError' = [lastError EXCEPT ![r] = thrown]
            /\ IF decision.do = "sleep"
               THEN /\ waits' = [waits EXCEPT ![r] = Append(@, decision.delay)]
                    /\ tpc' = [tpc EXCEPT ![r] = "sleep"]
                    /\ UNCHANGED <<generation, caught, inflight>>
               ELSE /\ generation' = [generation EXCEPT ![r] = "raised"]
                    /\ caught' = [caught EXCEPT ![r] = thrown]
                    /\ inflight' =
                         [inflight EXCEPT ![r] = failedUpdateRequest(r, thrown)]
                    /\ tpc' = [tpc EXCEPT ![r] = "updF"]
                    /\ UNCHANGED waits
            /\ UNCHANGED itinerary
  /\ calls' = [calls EXCEPT ![r] = @ + 1]
  /\ UNCHANGED <<env, clock, store, hvars, attempt, updates, probe>>

\* the backoff sleep ends: the loop of retryWithBackoff goes round and
\* sends the next generation call (firestore.js lines 384-397)
sleepReturns(r) ==
  /\ tpc[r] = "sleep"
  /\ attempt' = [attempt EXCEPT ![r] = @ + 1]
  /\ tpc' = [tpc EXCEPT ![r] = "gen"]
  /\ UNCHANGED <<env, clock, store, hvars, inflight, lastError, itinerary,
                 caught, waits, calls, genRaised, generation, updates, probe>>

\* the completed update returns or raises: lines 130-150
completedUpdateReturns(r) ==
  /\ tpc[r] = "updC"
  /\ \E answer \in StoreAnswers :
       LET result == updateDocumentResult(answer) IN
       /\ store' = IF answer.applied THEN ApplyPatch(store, inflight[r])
                   ELSE store
       /\ updates' = [updates EXCEPT ![r] =
                        Append(@, [request |-> inflight[r], answer |-> answer])]
       /\ IF result.kind = "throw"
          THEN /\ caught' = [caught EXCEPT ![r] = result]
               /\ inflight' =
                    [inflight EXCEPT ![r] = failedUpdateRequest(r, result)]
               /\ tpc' = [tpc EXCEPT ![r] = "updF"]
          ELSE /\ inflight' = [inflight EXCEPT ![r] = NoWrite]
               /\ tpc' = [tpc EXCEPT ![r] = "fulfilled"]
               /\ UNCHANGED caught
  /\ UNCHANGED <<env, clock, hvars, attempt, lastError, itinerary, waits,
                 calls, genRaised, generation, probe>>

\* processItinerary without the inner try/catch: the error of the failed
\* update leaves the task
afterFailedUpdate_Rethrows(result) ==
  IF result.kind = "throw" THEN "rejected" ELSE "fulfilled"

\* lines 152-159: how processItinerary ends once the failed update has
\* returned or raised: the inner catch logs the error and drops it
afterFailedUpdate(result) == "fulfilled"

\* the failed update returns or raises: lines 146-159
failedUpdateReturns(r) ==
  /\ tpc[r] = "updF"
  /\ \E answer \in StoreAnswers :
       /\ store' = IF answer.applied THEN ApplyPatch(store, inflight[r])
                   ELSE store
       /\ updates' = [updates EXCEPT ![r] =
                        Append(@, [request |-> inflight[r], answer |-> answer])]
       /\ tpc' = [tpc EXCEPT ![r] =
                    afterFailedUpdate(updateDocumentResult(answer))]
  /\ inflight' = [inflight EXCEPT ![r] = NoWrite]
  /\ UNCHANGED <<env, clock, hvars, attempt, lastError, itinerary, caught,
                 waits, calls, genRaised, generation, probe>>

Next ==
  \/ Tick
  \/ \E r \in Served : fetch(r)
  \/ \E r \in Served : getAccessTokenReturns(r)
  \/ \E r \in Served : createDocumentReturns(r)
  \/ \E r \in Served : generateFnReturns(r)
  \/ \E r \in Served : sleepReturns(r)
  \/ \E r \in Served : completedUpdateReturns(r)
  \/ \E r \in Served : failedUpdateReturns(r)

Spec == Init /\ [][Next]_vars

\* the steps of the background task of request r
TaskStep(r) ==
  \/ generateFnReturns(r)
  \/ sleepReturns(r)
  \/ completedUpdateReturns(r)
  \/ failedUpdateReturns(r)

\* The host runs a started background task to its end (ctx.waitUntil) and
\* every call the task awaits returns or raises.
FairSpec == Spec /\ \A r \in Served : WF_vars(TaskStep(r))

(***************************************************************************)
(* Request validation on its own: RequestSchema.parse applied to one body. *)
(***************************************************************************)
ProbeDestinations ==
  {Undefined, Null, Str(""), Str("Kyoto, Japan"), Num(7)}
ProbeDurations ==
  {Undefined, Null, Str("4")}
  \cup {Num(n) : n \in -1..MaxProbe}
  \cup {NumHalf(n) : n \in -1..MaxProbe}
ProbeBodies ==
  {Null, Arr(<<>>), Str("Kyoto, Japan")}
  \cup {RequestObject(d, n) : d \in ProbeDestinations, n \in ProbeDurations}

InitValidate ==
  /\ env = [FIREBASE_SERVICE_ACCOUNT |-> "{service account}",
            FIREBASE_PROJECT_ID |-> "project",
            OPENAI_API_KEY |-> "sk-key"]
  /\ InitJobs
  /\ probe \in {[phase |-> "in", body |-> b] : b \in ProbeBodies}

\* line 49 of the handler: RequestSchema.parse(requestBody)
Validate ==
  /\ probe.phase = "in"
  /\ probe' = [phase |-> "out", body |-> probe.body,
               result |-> RequestSchemaParse(probe.body)]
  /\ UNCHANGED <<env, clock, store, hvars, inflight, tvars>>

NextValidate == Validate

SpecValidate == InitValidate /\ [][NextValidate]_vars

(***************************************************************************)
(* Reading a stored document.                                              *)
(***************************************************************************)
WireNull == [nullValue |-> "null"]
\* the status text of a stored document
Status(doc) == doc.fields.status.stringValue
\* a stored field is null (or absent)
IsNull(doc, k) == k \notin DOMAIN doc.fields \/ doc.fields[k] = WireNull
TerminalStatuses == {"completed", "failed"}
\* the document of request r, once the request has an id
HasJob(r) == jobId[r] # NoId
JobDoc(r) == store[jobId[r]]

(***************************************************************************)
(* Properties.                                                             *)
(***************************************************************************)
\* C1: a stored document starts with status processing; from processing
\* its status changes only to completed or failed; and once its status is
\* completed or failed no later step changes the document at all.
C1_StatusChangesAtMostOnce ==
  [][\A id \in DocIds :
       /\ (~store[id].exists /\ store'[id].exists)
            => Status(store'[id]) = "processing"
       /\ (store[id].exists /\ Status(store[id]) = "processing")
            => /\ store'[id].exists
               /\ Status(store'[id]) \in {"processing"} \cup TerminalStatuses
       /\ (store[id].exists /\ Status(store[id]) \in TerminalStatuses)
            => store'[id] = store[id]]_vars

\* C2: in every stored document the itinerary is non-null exactly when the
\* status is completed, and the error is non-null exactly when the status
\* is failed.
C2_ItineraryAndErrorFollowStatus ==
  \A id \in DocIds :
    store[id].exists =>
      /\ ~IsNull(store[id], "itinerary") <=> Status(store[id]) = "completed"
      /\ ~IsNull(store[id], "error") <=> Status(store[id]) = "failed"

\* the store applied at least one of the updates the task of r sent
AnyUpdateApplied(r) ==
  \E i \in 1..Len(updates[r]) : updates[r][i].answer.applied
\* the last update the task of r sent raised in updateDocument
LastUpdateRaised(r) ==
  /\ updates[r] # <<>>
  /\ updateDocumentResult(updates[r][Len(updates[r])].answer).kind = "throw"

\* C3 (as claimed): every job whose initial document was created reaches a
\* terminal status: once the handler and the background task of the job have
\* nothing left to run, the stored status is completed or failed.
C3_EveryCreatedJobEndsTerminal ==
  \A r \in Requests :
    (HasJob(r) /\ JobDoc(r).exists /\ hpc[r] = "done"
       /\ tpc[r] \in {"none", "fulfilled"})
      => Status(JobDoc(r)) \in TerminalStatuses

\* C3 (amended): every background task that was started ends, and when it
\* has ended the stored status is completed or failed provided the store
\* applied at least one of the updates the task sent.
C3_StartedTaskEndsAndRecordsOutcome ==
  \A r \in Requests :
    (tpc[r] = "gen")
      ~> (tpc[r] = "fulfilled"
          /\ (AnyUpdateApplied(r) => Status(JobDoc(r)) \in TerminalStatuses))

C3_Witness ==
  \E r \in Requests :
    /\ tpc[r] = "fulfilled"
    /\ AnyUpdateApplied(r)
    /\ Status(JobDoc(r)) = "failed"
    /\ calls[r] = maxRetries + 1

\* C4: the promise of processItinerary is never rejected, whatever
\* generation, the completed update and the failed update raise.
C4_TaskNeverRaises ==
  \A r \in Requests : tpc[r] # "rejected"

C4_Witness ==
  \E r \in Requests :
    /\ tpc[r] = "fulfilled"
    /\ generation[r] = "raised"
    /\ LastUpdateRaised(r)

\* C5: a background task or a 202 response exists only for a request whose
\* createDocument call returned without raising and whose document is in
\* the store.
C5_CreateBeforeTaskAndResponse ==
  \A r \in Requests :
    (tpc[r] # "none" \/ response[r].status = 202)
      => /\ created[r] = "return"
         /\ HasJob(r)
         /\ JobDoc(r).exists

C5_Witness ==
  \E r \in Requests :
    /\ response[r].status = 202
    /\ tpc[r] = "gen"
    /\ created[r] = "return"

\* C6: in the step in which the handler returns the 202 response, no
\* generation call of the job has returned and the stored document has
\* status processing and null itinerary, error and completedAt.
C6_RespondsBeforeGeneration ==
  [][\A r \in Requests :
       (response[r] = NoResponse /\ response'[r].status = 202)
         => /\ response'[r].body = [jobId |-> jobId'[r]]
            /\ calls'[r] = 0
            /\ generation'[r] = "running"
            /\ store'[jobId'[r]].exists
            /\ Status(store'[jobId'[r]]) = "processing"
            /\ store'[jobId'[r]].fields.itinerary = WireNull
            /\ store'[jobId'[r]].fields.error = WireNull
            /\ store'[jobId'[r]].fields.completedAt = WireNull]_vars

C6_Witness ==
  \E r \in Requests :
    /\ response[r].status = 202
    /\ calls[r] = 0
    /\ Status(JobDoc(r)) = "processing"

\* the body of a POST request does not pass the request schema
BodyFailsSchema(body) == ~body.json \/ ~RequestSchemaParse(body.value).ok
\* the handler made nothing for request r: no id, no write, no task
NothingCreated(r) ==
  /\ jobId[r] = NoId
  /\ inflight[r] = NoWrite
  /\ created[r] = "none"
  /\ tpc[r] = "none"
  /\ "jobId" \notin DOMAIN response[r].body

\* C7 (as claimed): a POST request whose body fails the request schema is
\* answered with a 4xx response, and no job document, background task or
\* job id comes of it.
C7_InvalidBodyAnswered4xx ==
  \A r \in Requests :
    (req[r].method = "POST" /\ BodyFailsSchema(req[r].body))
      => /\ response[r].status >= 400
         /\ response[r].status <= 499
         /\ NothingCreated(r)

\* C7 (amended): a POST request whose body fails the request schema is
\* answered with 400 when every required environment variable is set and
\* with 500 when one is missing; either way no job document, background
\* task or job id comes of it.
C7_InvalidBodyRejected ==
  \A r \in Requests :
    (req[r].method = "POST" /\ BodyFailsSchema(req[r].body))
      => /\ response[r].status = (IF EnvValid(env) THEN 400 ELSE 500)
         /\ NothingCreated(r)

C7_Witness ==
  \E r \in Requests :
    /\ req[r].method = "POST"
    /\ req[r].body.json
    /\ ~RequestSchemaParse(req[r].body.value).ok
    /\ response[r].status = 400

\* what the specification asks of a request body: an object whose
\* destination is a non-empty string and whose durationDays is an integer
\* from 1 to 30
Acceptable(body) ==
  /\ body.type = "object"
  /\ Field(body, "destination").type = "string"
  /\ Field(body, "destination").s # ""
  /\ Field(body, "durationDays") \in {Num(k) : k \in 1..30}

\* C8: RequestSchema accepts a body exactly when destination is a non-empty
\* string and durationDays is an integer from 1 to 30.
C8_AcceptsExactlyValidRequests ==
  probe.phase = "out" => (probe.result.ok <=> Acceptable(probe.body))

C8_Witness ==
  /\ probe.phase = "out"
  /\ probe.body = RequestObject(Str("Kyoto, Japan"), Num(30))
  /\ probe.result.ok

\* C9: when generation has failed (a fatal error, or a retryable error on
\* all 4 invocations) and the failed update succeeded, the stored status is
\* failed and the stored error is the non-empty message of the last error
\* generation raised.
C9_FailedJobStoresLastError ==
  \A r \in Requests :
    (generation[r] = "raised" /\ Len(updates[r]) = 1
       /\ ResponseOk(updates[r][1].answer))
      => /\ ~genRaised[r].retryable \/ calls[r] = 4
         /\ Status(JobDoc(r)) = "failed"
         /\ JobDoc(r).fields.error = [stringValue |-> genRaised[r].message]
         /\ genRaised[r].message # ""

C9_Witness ==
  \E r \in Requests :
    /\ generation[r] = "raised"
    /\ calls[r] = 4
    /\ Len(updates[r]) = 1
    /\ ResponseOk(updates[r][1].answer)
    /\ Status(JobDoc(r)) = "failed"

\* C10: a stored document with status completed holds an itinerary of
\* exactly durationDays entries.
C10_CompletedHasDurationDaysEntries ==
  \A id \in DocIds :
    (store[id].exists /\ Status(store[id]) = "completed")
      => ToString(Len(store[id].fields.itinerary.arrayValue.values))
           = store[id].fields.durationDays.integerValue

(***************************************************************************)
(* Itinerary validation on its own: ItinerarySchema.parse applied to one   *)
(* generated itinerary (llm.js line 97).                                   *)
(***************************************************************************)
\* the longest activities list of a probed day
MaxActivities == 4

\* the sequences over S of length 0 .. n
SeqsUpTo(S, n) == UNION {[1..k -> S] : k \in 0..n}

\* the time slots a generated activity may name: the three of the schema
\* and one that is none of them
ProbeSlots == TimeSlots \cup {"Night"}

\* one-day itineraries, one for each list of time slots
ProbeItineraries ==
  {Arr(<<Day(Num(1), Arr([i \in 1..Len(slots) |-> Activity(slots[i])]))>>) :
     slots \in SeqsUpTo(ProbeSlots, MaxActivities)}

ValidEnv ==
  [FIREBASE_SERVICE_ACCOUNT |-> "{service account}",
   FIREBASE_PROJECT_ID |-> "project",
   OPENAI_API_KEY |-> "sk-key"]

InitSchema ==
  /\ env = ValidEnv
  /\ InitJobs
  /\ probe \in {[phase |-> "in", value |-> v] : v \in ProbeItineraries}

\* llm.js line 97: ItinerarySchema.parse(parsedJson)
ValidateItinerary ==
  /\ probe.phase = "in"
  /\ probe' = [phase |-> "out", value |-> probe.value,
               result |-> ItinerarySchemaParse(probe.value)]
  /\ UNCHANGED <<env, clock, store, hvars, inflight, tvars>>

NextSchema == ValidateItinerary

SpecSchema == InitSchema /\ [][NextSchema]_vars

\* the time slots of the activities of a day, in order
SlotsOf(day) ==
  [i \in 1..Len(Field(day, "activities").items) |->
     Field(Field(day, "activities").items[i], "time").s]

\* a day's activities are exactly 3 and name each time slot once
ExactlyThreeSlots(day) ==
  /\ Len(SlotsOf(day)) = 3
  /\ {SlotsOf(day)[i] : i \in 1..3} = TimeSlots

\* C11: an itinerary that passes ItinerarySchema has, in every day, exactly
\* 3 activities naming Morning, Afternoon and Evening once each.
C11_RejectsDaysWithoutThreeSlots ==
  (probe.phase = "out" /\ probe.result.ok)
    => \A i \in 1..Len(probe.value.items) :
         ExactlyThreeSlots(probe.value.items[i])

(***************************************************************************)
(* retryWithBackoff on its own (firestore.js lines 381-404): one call      *)
(* retryWithBackoff(fn, maxRetries, baseDelay, RetryableError), where the  *)
(* script says how each invocation of fn ends.                             *)
(***************************************************************************)
\* the largest maxRetries probed
MaxRetriesProbe == 4

\* how an invocation of fn ends: it raises a RetryableError, raises another
\* Error, or returns
Outcomes == {"retryable", "fatal", "ok"}
ProbeDelays == {1000, baseDelay}

\* the error and the value of invocation number n of fn (counted from 1):
\* each invocation raises or returns an object of its own
ErrorOf(outcome, n) == Throw(outcome = "retryable", "error " \o ToString(n))
ValueOf(n) == Str("result " \o ToString(n))

InitRetry ==
  /\ env = ValidEnv
  /\ InitJobs
  /\ probe \in UNION {
       {[phase |-> "call", retries |-> m, delay0 |-> d, script |-> s,
         attempt |-> 0, calls |-> 0, waits |-> <<>>,
         lastError |-> NoError, result |-> NoError] :
          d \in ProbeDelays, s \in [1..(m + 1) -> Outcomes]} :
       m \in 0..MaxRetriesProbe}

\* lines 385-401: fn is invoked and returns or raises
retryInvoke ==
  /\ probe.phase = "call"
  /\ LET n == probe.calls + 1
         outcome == probe.script[n]
         error == ErrorOf(outcome, n)
         decision == retryDecision(error, probe.attempt, probe.retries,
                                   probe.delay0)
         thrown == retryThrown(probe.lastError, error)
     IN
     probe' =
       IF outcome = "ok"
       THEN [probe EXCEPT !.calls = n, !.phase = "done",
                          !.result = Return(ValueOf(n))]
       ELSE IF decision.do = "sleep"
       THEN [probe EXCEPT !.calls = n, !.phase = "sleep",
                          !.lastError = thrown,
                          !.waits = Append(@, decision.delay)]
       ELSE [probe EXCEPT !.calls = n, !.phase = "done",
                          !.lastError = thrown, !.result = thrown]
  /\ UNCHANGED <<env, clock, store, hvars, inflight, tvars>>

\* lines 384 and 397: sleep(delay) resolves and the for loop goes round;
\* when attempt has passed maxRetries the loop ends and the function
\* returns undefined
retrySleepReturns ==
  /\ probe.phase = "sleep"
  /\ probe' =
       IF probe.attempt + 1 <= probe.retries
       THEN [probe EXCEPT !.attempt = @ + 1, !.phase = "call"]
       ELSE [probe EXCEPT !.attempt = @ + 1, !.phase = "done",
                          !.result = Return(Undefined)]
  /\ UNCHANGED <<env, clock, store, hvars, inflight, tvars>>

NextRetry ==
  \/ retryInvoke
  \/ retrySleepReturns

SpecRetry == InitRetry /\ [][NextRetry]_vars

\* the number of invocations at the head of the script that raise a
\* retryable error
RECURSIVE LeadingRetryable(_)
LeadingRetryable(script) ==
  IF script = <<>> \/ Head(script) # "retryable" THEN 0
  ELSE 1 + LeadingRetryable(Tail(script))

RECURSIVE SumSeq(_)
SumSeq(s) == IF s = <<>> THEN 0 ELSE Head(s) + SumSeq(Tail(s))

\* C12: when every invocation raises a retryable error, retryWithBackoff
\* ends after exactly maxRetries + 1 invocations and exactly maxRetries
\* waits, raising the error of the last invocation.
C12_ExhaustedRetriesRaiseLastError ==
  (probe.phase = "done"
     /\ LeadingRetryable(probe.script) = probe.retries + 1)
    => /\ probe.calls = probe.retries + 1
       /\ Len(probe.waits) = probe.retries
       /\ probe.result = ErrorOf("retryable", probe.retries + 1)

C12_Witness ==
  /\ probe.phase = "done"
  /\ probe.retries = maxRetries
  /\ LeadingRetryable(probe.script) = maxRetries + 1
  /\ probe.calls = maxRetries + 1

\* C13: when the first k invocations raise a retryable error (k below
\* maxRetries) and the next one returns, retryWithBackoff ends after k + 1
\* invocations with that result, and its waits are baseDelay*2^0, ...,
\* baseDelay*2^(k-1) in this order, baseDelay*(2^k - 1) in all.
C13_BackoffDoublesUntilSuccess ==
  LET k == LeadingRetryable(probe.script) IN
  (probe.phase = "done" /\ k < probe.retries /\ probe.script[k + 1] = "ok")
    => /\ probe.calls = k + 1
       /\ probe.result = Return(ValueOf(k + 1))
       /\ probe.waits = [i \in 1..k |-> probe.delay0 * 2^(i - 1)]
       /\ SumSeq(probe.waits) = probe.delay0 * (2^k - 1)

C13_Witness ==
  /\ probe.phase = "done"
  /\ probe.retries = 4
  /\ LeadingRetryable(probe.script) = 3
  /\ probe.result = Return(ValueOf(4))
  /\ probe.waits = <<2000, 4000, 8000>>

\* C14: when the first invocation raises an error that is no retryable
\* error, retryWithBackoff ends after that one invocation, without a wait,
\* raising that error.
C14_FatalErrorRaisedAtOnce ==
  (probe.phase \in {"sleep", "done"} /\ probe.script[1] = "fatal")
    => /\ probe.phase = "done"
       /\ probe.calls = 1
       /\ probe.waits = <<>>
       /\ probe.result = ErrorOf("fatal", 1)

C14_Witness ==
  /\ probe.phase = "done"
  /\ probe.script[1] = "fatal"
  /\ probe.retries = maxRetries
  /\ probe.result = ErrorOf("fatal", 1)

(***************************************************************************)
(* firestore.js: FirestoreClient.convertFromFirestoreFields, lines 173-203.*)
(***************************************************************************)
\* the integers and instants whose text the decoder is given in this model
IntTexts == -10..100
InstantTexts == 0..9

\* parseInt(s) of the decimal text of an integer
ParseInt(s) == CHOOSE n \in IntTexts : ToString(n) = s
\* new Date(s) of an ISO text: the instant
ParseDate(s) == CHOOSE t \in InstantTexts : ISOString(t) = s

\* the tags the decoder tests, in the order of its branches
KnownTags ==
  <<"nullValue", "stringValue", "integerValue", "doubleValue",
    "booleanValue", "timestampValue", "arrayValue", "mapValue">>
\* value.<tag> !== undefined for one of the tags
HasKnownTag(w) == \E i \in 1..Len(KnownTags) : KnownTags[i] \in DOMAIN w

RECURSIVE convertFromFirestoreFields(_)
RECURSIVE DecodeValue(_)

\* lines 190-196: an element of arrayValue.values
DecodeItem(item) ==
  IF "mapValue" \in DOMAIN item
  THEN Obj(convertFromFirestoreFields(item.mapValue.fields))
  ELSE IF HasKnownTag(item) THEN DecodeValue(item)
  ELSE Undefined

\* lines 177-198: the branch taken for a value with a tested tag
DecodeValue(w) ==
  CASE "nullValue" \in DOMAIN w -> Null
    [] "stringValue" \in DOMAIN w -> Str(w.stringValue)
    [] "integerValue" \in DOMAIN w -> Num(ParseInt(w.integerValue))
    [] "doubleValue" \in DOMAIN w -> w.doubleValue
    [] "booleanValue" \in DOMAIN w -> Bool(w.booleanValue)
    [] "timestampValue" \in DOMAIN w -> Date(ParseDate(w.timestampValue))
    [] "arrayValue" \in DOMAIN w ->
         Arr([i \in 1..Len(w.arrayValue.values) |->
                DecodeItem(w.arrayValue.values[i])])
    [] "mapValue" \in DOMAIN w ->
         Obj(convertFromFirestoreFields(w.mapValue.fields))

\* a key whose value passes none of the tests gets no entry: the chain of
\* else-ifs has no final else
convertFromFirestoreFields(fields) ==
  [k \in {key \in DOMAIN fields : HasKnownTag(fields[key])} |->
     DecodeValue(fields[k])]

\* the decoder raises a TypeError: it reads .map of an arrayValue that has
\* no values member (line 190), or .mapValue of an element that is null
\* (line 191)
RECURSIVE DecodeRaises(_)
DecodeRaises(fields) ==
  \E k \in DOMAIN fields :
    LET w == fields[k] IN
    /\ \A i \in 1..6 : KnownTags[i] \notin DOMAIN w
    /\ \/ /\ "arrayValue" \in DOMAIN w
          /\ \/ "values" \notin DOMAIN w.arrayValue
             \/ \E i \in 1..Len(w.arrayValue.values) :
                  LET item == w.arrayValue.values[i] IN
                  \/ item = WireJsonNull
                  \/ /\ "mapValue" \in DOMAIN item
                     /\ DecodeRaises(item.mapValue.fields)
                  \/ /\ "mapValue" \notin DOMAIN item
                     /\ DecodeRaises([temp |-> item])
       \/ /\ "arrayValue" \notin DOMAIN w
          /\ "mapValue" \in DOMAIN w
          /\ DecodeRaises(w.mapValue.fields)

\* a call of convertFromFirestoreFields: its result or its error
decodeResult(fields) ==
  IF DecodeRaises(fields) THEN Throw(FALSE, "TypeError")
  ELSE Return(Obj(convertFromFirestoreFields(fields)))

(***************************************************************************)
(* The codec on its own: a field set encoded and decoded again, and wire   *)
(* fields decoded.                                                         *)
(***************************************************************************)
\* the longest list among the probed values
MaxListLen == 2

ProbeScalars ==
  {Null, Str(""), Str("Kyoto"), Num(0), Num(-3), Num(42), NumHalf(1),
   Bool(TRUE), Bool(FALSE), Date(0), Date(5)}
\* what a list may hold: scalars, a list, a map
ProbeListItems ==
  ProbeScalars
  \cup {Arr(<<Num(1)>>), Obj([day |-> Num(1), theme |-> Str("Temples")])}
ProbeLists == {Arr(s) : s \in SeqsUpTo(ProbeListItems, MaxListLen)}
ProbeMaps ==
  {Obj([inner |-> v]) : v \in ProbeScalars}
  \cup {Obj([inner |-> Arr(<<v>>), count |-> Num(1)]) : v \in ProbeListItems}
  \cup {Obj([inner |-> Obj([deep |-> v])]) : v \in ProbeScalars}
\* the field sets given to the encoder
ProbeFieldSets ==
  {[value |-> v] : v \in ProbeScalars \cup ProbeLists \cup ProbeMaps}
  \cup {[status |-> Str("failed"), error |-> Str("x"), value |-> v] :
          v \in ProbeScalars}

\* wire values with a tag the decoder does not test
UnknownTagValues ==
  {[bytesValue |-> "AQI="],
   [referenceValue |-> "projects/project/databases/(default)/documents/a/b"],
   [geoPointValue |-> [latitude |-> 35, longitude |-> 135]]}
\* an empty array as the store sends it: arrayValue without values
WireEmptyArray == [arrayValue |-> [x \in {} |-> x]]
WireArray(items) == [arrayValue |-> [values |-> items]]
WireMap(fields) == [mapValue |-> [fields |-> fields]]

\* the wire field sets given to the decoder
ProbeWireFieldSets ==
  {convertToFirestoreFields(f) : f \in ProbeFieldSets}
  \cup {[value |-> u] : u \in UnknownTagValues}
  \cup {[status |-> [stringValue |-> "failed"], value |-> u] :
          u \in UnknownTagValues}
  \cup {[value |-> WireArray(<<u>>)] : u \in UnknownTagValues}
  \cup {[value |-> WireMap([inner |-> u])] : u \in UnknownTagValues}
  \cup {[value |-> WireEmptyArray], [value |-> WireArray(<<WireJsonNull>>)]}

InitCodec ==
  /\ env = ValidEnv
  /\ InitJobs
  /\ probe \in {[phase |-> "in", kind |-> "roundtrip", value |-> f] :
                  f \in ProbeFieldSets}
               \cup {[phase |-> "in", kind |-> "decode", value |-> w] :
                       w \in ProbeWireFieldSets}

\* convertFromFirestoreFields(convertToFirestoreFields(value))
encodeThenDecode ==
  /\ probe.phase = "in"
  /\ probe.kind = "roundtrip"
  /\ probe' = [phase |-> "out", kind |-> probe.kind, value |-> probe.value,
               result |-> decodeResult(convertToFirestoreFields(probe.value))]
  /\ UNCHANGED <<env, clock, store, hvars, inflight, tvars>>

\* convertFromFirestoreFields(value) of wire fields
decodeWire ==
  /\ probe.phase = "in"
  /\ probe.kind = "decode"
  /\ probe' = [phase |-> "out", kind |-> probe.kind, value |-> probe.value,
               result |-> decodeResult(probe.value)]
  /\ UNCHANGED <<env, clock, store, hvars, inflight, tvars>>

NextCodec ==
  \/ encodeThenDecode
  \/ decodeWire

SpecCodec == InitCodec /\ [][NextCodec]_vars

\* C16: a field set encoded and decoded again is the field set itself.
C16_DecodeInvertsEncode ==
  (probe.phase = "out" /\ probe.kind = "roundtrip")
    => probe.result = Return(Obj(probe.value))

\* C17: decoding wire fields of which one carries none of the tested tags
\* raises.
C17_UnknownTagRaises ==
  (/\ probe.phase = "out"
   /\ probe.kind = "decode"
   /\ \E k \in DOMAIN probe.value : ~HasKnownTag(probe.value[k]))
    => probe.result.kind = "throw"

(***************************************************************************)
(* The store client on its own: createDocument, updateDocument and         *)
(* getDocument (firestore.js lines 17-119) called against the store.       *)
(***************************************************************************)
\* the number of client calls of a run
MaxOps == 3

\* the statuses of the store's error responses
StoreErrorStatuses == {400, 403, 404, 409, 429, 500, 503}
StoreError(status) ==
  [applied |-> FALSE, kind |-> "http", status |-> status,
   body |-> "error " \o ToString(status)]
\* a request that fails before any response (fetch rejects)
StoreUnreached == [applied |-> FALSE, kind |-> "reject"]

\* the answers of the store to a create: a document that exists is not
\* created again (409)
CreateAnswers(doc) ==
  {StoreError(s) : s \in StoreErrorStatuses} \cup {StoreUnreached}
  \cup (IF doc.exists THEN {} ELSE {StoreAnswerOk, StoreAnswerLost})
\* the answers of the store to an update
UpdateAnswers ==
  {StoreError(s) : s \in StoreErrorStatuses}
  \cup {StoreUnreached, StoreAnswerOk, StoreAnswerLost}
\* the answers of the store to a read: the document's fields, or 404 when
\* there is no such document, or another error
GetAnswers(doc) ==
  {StoreError(s) : s \in StoreErrorStatuses \ {404}} \cup {StoreUnreached}
  \cup (IF doc.exists
        THEN {[applied |-> FALSE, kind |-> "http", status |-> 200,
               fields |-> doc.fields]}
        ELSE {StoreError(404)})

\* getDocument raising for 404 like for every other error status
getDocumentResult_NotFoundRaises(answer) ==
  IF answer.kind = "reject" THEN Throw(FALSE, FetchErrorMessage)
  ELSE IF ~ResponseOk(answer)
       THEN Throw(FALSE, "Firestore get error: " \o ToString(answer.status)
                         \o " - " \o answer.body)
       ELSE decodeResult(answer.fields)

\* lines 108-118: what getDocument does with the store's answer
getDocumentResult(answer) ==
  IF answer.kind = "reject" THEN Throw(FALSE, FetchErrorMessage)
  ELSE IF answer.status = 404 THEN Return(Null)
  ELSE IF ~ResponseOk(answer)
       THEN Throw(FALSE, "Firestore get error: " \o ToString(answer.status)
                         \o " - " \o answer.body)
       ELSE decodeResult(answer.fields)

\* the documents created and the fields updated in this model
ProbeDocuments ==
  {InitialDocument("Kyoto, Japan", 4, 0), InitialDocument("Oslo", 1, 1)}
ProbeUpdates ==
  {[status |-> Str("failed"), error |-> Str("x")],
   [status |-> Str("failed"), error |-> Undefined],
   FailedUpdate(2, "OpenAI API error: 401 - unauthorized"),
   CompletedUpdate("Kyoto, Japan", 4, 2, ItineraryOneDay)}

InitStore ==
  /\ env = ValidEnv
  /\ InitJobs
  /\ probe = [phase |-> "ready", ops |-> 0, op |-> "none"]

\* a call of one of the client's methods has ended
Called(op, id, data, answer, result) ==
  probe' = [phase |-> "ready", ops |-> probe.ops + 1, op |-> op,
            docId |-> id, data |-> data, answer |-> answer,
            result |-> result, before |-> store[id]]

\* createDocument("itineraries", id, data), lines 17-47
clientCreate ==
  /\ probe.phase = "ready" /\ probe.ops < MaxOps
  /\ \E id \in DocIds, data \in ProbeDocuments :
       \E answer \in CreateAnswers(store[id]) :
         /\ store' = IF answer.applied
                     THEN ApplyCreate(store, createDocumentRequest(id, data))
                     ELSE store
         /\ Called("create", id, data, answer, createDocumentResult(answer))
  /\ UNCHANGED <<env, clock, hvars, inflight, tvars>>

\* updateDocument("itineraries", id, data), lines 55-91
clientUpdate ==
  /\ probe.phase = "ready" /\ probe.ops < MaxOps
  /\ \E id \in DocIds, data \in ProbeUpdates, answer \in UpdateAnswers :
       /\ store' = IF answer.applied
                   THEN ApplyPatch(store, updateDocumentRequest(id, data))
                   ELSE store
       /\ Called("update", id, data, answer, updateDocumentResult(answer))
  /\ UNCHANGED <<env, clock, hvars, inflight, tvars>>

\* getDocument("itineraries", id), lines 98-119
clientGet ==
  /\ probe.phase = "ready" /\ probe.ops < MaxOps
  /\ \E id \in DocIds :
       \E answer \in GetAnswers(store[id]) :
         Called("get", id, <<>>, answer, getDocumentResult(answer))
  /\ UNCHANGED <<env, clock, store, hvars, inflight, tvars>>

NextStore ==
  \/ clientCreate
  \/ clientUpdate
  \/ clientGet

SpecStore == InitStore /\ [][NextStore]_vars

\* the last client call was an update the store applied and the client
\* returned from, on a document that existed
UpdatedStoredDocument ==
  /\ probe.op = "update"
  /\ probe.answer.applied
  /\ probe.result.kind = "return"
  /\ probe.before.exists

\* what getDocument returns for document id when the store answers 200
Reread(id) ==
  getDocumentResult([applied |-> FALSE, kind |-> "http", status |-> 200,
                     fields |-> store[id].fields])

\* C15: after a successful updateDocument, every field the document had
\* and the update's data does not name is stored as before and is read
\* back as before.
C15_UpdateKeepsUnnamedFields ==
  UpdatedStoredDocument =>
    /\ store[probe.docId].exists
    /\ \A k \in DOMAIN probe.before.fields \ DOMAIN probe.data :
         /\ k \in DOMAIN store[probe.docId].fields
         /\ store[probe.docId].fields[k] = probe.before.fields[k]
         /\ Reread(probe.docId).value.fields[k]
              = convertFromFirestoreFields(probe.before.fields)[k]

C15_Witness ==
  /\ UpdatedStoredDocument
  /\ probe.data = [status |-> Str("failed"), error |-> Str("x")]
  /\ Reread(probe.docId).value.fields.status = Str("failed")
  /\ Reread(probe.docId).value.fields.destination = Str("Kyoto, Japan")
  /\ Reread(probe.docId).value.fields.durationDays = Num(4)

\* the text of a store error: the method's prefix, the status and the body
StoreErrorText(prefix, answer) ==
  prefix \o ToString(answer.status) \o " - " \o answer.body

\* C18: createDocument and updateDocument raise an error with the status
\* and body of every non-2xx response; getDocument returns null exactly
\* for a 404 response, raises an error with status and body for every
\* other non-2xx response, and returns the decoded fields of a 2xx one.
C18_StoreErrorsCarryStatusAndBody ==
  (probe.op # "none" /\ probe.answer.kind = "http") =>
    LET answer == probe.answer IN
    /\ (probe.op = "create" /\ ~ResponseOk(answer))
         => probe.result
              = Throw(FALSE, StoreErrorText("Firestore create error: ", answer))
    /\ (probe.op = "update" /\ ~ResponseOk(answer))
         => probe.result
              = Throw(FALSE, StoreErrorText("Firestore update error: ", answer))
    /\ probe.op = "get" =>
         /\ probe.result = Return(Null) <=> answer.status = 404
         /\ (~ResponseOk(answer) /\ answer.status # 404)
              => probe.result
                   = Throw(FALSE, StoreErrorText("Firestore get error: ", answer))
         /\ ResponseOk(answer)
              => probe.result
                   = Return(Obj(convertFromFirestoreFields(answer.fields)))

C18_Witness ==
  /\ probe.op = "get"
  /\ probe.answer.kind = "http"
  /\ probe.answer.status = 404
  /\ probe.result = Return(Null)
  /\ store["id1"].exists

(***************************************************************************)
(* getAccessToken on its own (firestore.js lines 210-276): invocations one *)
(* after the other with the credential of the deployment.                  *)
(***************************************************************************)
\* the number of invocations of a run
MaxTokenCalls == 3

\* the credentials: unset, text that is no JSON, JSON without a private
\* key, a service account key
Credentials == {"", "not json", "{no private_key}", "{service account}"}
\* the credential gets getAccessToken as far as the exchange (line 247)
CredentialUsable(key) == key = "{service account}"

\* the answers of the token endpoint to one exchange, and no answer at all
ProbeTokenAnswers ==
  TokenAnswers
  \cup {[kind |-> "http", status |-> 401, body |-> "invalid_client"],
        [kind |-> "http", status |-> 500, body |-> "backend error"],
        [kind |-> "reject"]}
NoAnswer == [kind |-> "none"]

InitToken ==
  /\ env \in {[ValidEnv EXCEPT !.FIREBASE_SERVICE_ACCOUNT = key] :
                key \in Credentials}
  /\ InitJobs
  /\ probe = [phase |-> "ready", started |-> 0, exchanges |-> 0, log |-> <<>>]

\* getAccessToken(env.FIREBASE_SERVICE_ACCOUNT) is called and runs to its
\* first await that leaves the worker: it raises at once for a credential
\* it cannot use, and else sends the exchange request (line 247)
tokenCall ==
  /\ probe.phase = "ready"
  /\ probe.started < MaxTokenCalls
  /\ probe' =
       IF CredentialUsable(env.FIREBASE_SERVICE_ACCOUNT)
       THEN [probe EXCEPT !.phase = "exchange", !.started = @ + 1,
                          !.exchanges = @ + 1]
       ELSE [probe EXCEPT
               !.started = @ + 1,
               !.log = Append(@, [answer |-> NoAnswer,
                                  result |-> getAccessTokenResult(
                                               env.FIREBASE_SERVICE_ACCOUNT,
                                               NoAnswer)])]
  /\ UNCHANGED <<env, clock, store, hvars, inflight, tvars>>

\* the exchange is answered or fails: lines 258-271
tokenExchangeReturns ==
  /\ probe.phase = "exchange"
  /\ \E answer \in ProbeTokenAnswers :
       probe' =
         [probe EXCEPT
            !.phase = "ready",
            !.log = Append(@, [answer |-> answer,
                               result |-> getAccessTokenResult(
                                            env.FIREBASE_SERVICE_ACCOUNT,
                                            answer)])]
  /\ UNCHANGED <<env, clock, store, hvars, inflight, tvars>>

NextToken ==
  \/ tokenCall
  \/ tokenExchangeReturns

SpecToken == InitToken /\ [][NextToken]_vars

\* C19: each invocation of getAccessToken with a usable credential sends
\* one exchange request, also after an invocation that succeeded or
\* failed; with a missing or malformed credential it raises and no request
\* is sent; a non-2xx answer makes it raise an error with the endpoint's
\* status and body.
C19_OneExchangePerInvocation ==
  /\ CredentialUsable(env.FIREBASE_SERVICE_ACCOUNT)
       => probe.exchanges = probe.started
  /\ ~CredentialUsable(env.FIREBASE_SERVICE_ACCOUNT)
       => /\ probe.exchanges = 0
          /\ Len(probe.log) = probe.started
          /\ \A i \in 1..Len(probe.log) : probe.log[i].result.kind = "throw"
  /\ \A i \in 1..Len(probe.log) :
       LET answer == probe.log[i].answer IN
       (answer.kind = "http" /\ ~ResponseOk(answer))
         => probe.log[i].result
              = Throw(FALSE, "Token exchange failed: "
                             \o ToString(answer.status) \o " - " \o answer.body)

\* two invocations that both succeeded, after two exchanges
C19_Witness ==
  /\ probe.phase = "ready"
  /\ probe.started = 2
  /\ probe.exchanges = 2
  /\ probe.log[1].result = Return("token")
  /\ probe.log[2].result = Return("token")

(***************************************************************************)
(* Two requests served concurrently: the handler and the background task   *)
(* of each interleave at their awaits.                                     *)
(***************************************************************************)
\* the requests of the concurrent runs
PairRequests ==
  {[method |-> "POST", body |-> Body(RequestObject(Str("Kyoto, Japan"), n))] :
     n \in {Num(0), Num(1), Num(4)}}
\* what a generation call ends with in the concurrent runs: the one-day
\* itinerary, a retryable error (429) or a fatal error (401)
PairItineraries == {Undefined, ItinerarySchemaParse(ItineraryOneDay).value}
PairErrors ==
  {NoError, generateFn(LLMError(429, "rate limit")),
   generateFn(LLMError(401, "unauthorized"))}

InitPair ==
  /\ env = ValidEnv
  /\ InitJobs
  /\ probe = NoProbe

NextPair ==
  \/ \E r \in Requests : fetch(r) /\ req'[r] \in PairRequests
  \/ \E r \in Requests : getAccessTokenReturns(r)
  \/ \E r \in Requests : createDocumentReturns(r)
  \/ \E r \in Requests :
       /\ generateFnReturns(r)
       /\ itinerary'[r] \in PairItineraries
       /\ genRaised'[r] \in PairErrors
  \/ \E r \in Requests : sleepReturns(r)
  \/ \E r \in Requests : completedUpdateReturns(r)
  \/ \E r \in Requests : failedUpdateReturns(r)

SpecPair == InitPair /\ [][NextPair]_vars

\* the request was accepted: its createDocument call returned
Accepted(r) == created[r] = "return"

\* the document a job has when it runs alone: the initial document of its
\* request, then, in order, each of its own updates that the store applied
RECURSIVE AfterUpdates(_, _)
AfterUpdates(st, ups) ==
  IF ups = <<>> THEN st
  ELSE AfterUpdates(IF Head(ups).answer.applied
                    THEN ApplyPatch(st, Head(ups).request) ELSE st,
                    Tail(ups))
AloneDoc(r) ==
  AfterUpdates(
    ApplyCreate([id \in DocIds |-> NoDoc],
                createDocumentRequest(
                  jobId[r],
                  InitialDocument(validated[r].destination,
                                  validated[r].durationDays, clock))),
    updates[r])[jobId[r]]

\* C20: accepted requests have documents of their own, every update a job
\* sent went to its own document, and the stored document of a job is at
\* every moment the one its own request and its own call outcomes give,
\* whatever the other request does.
C20_JobsAreIndependent ==
  /\ \A r, q \in Requests :
       (r # q /\ Accepted(r) /\ Accepted(q)) => jobId[r] # jobId[q]
  /\ \A r \in Requests :
       /\ \A i \in 1..Len(updates[r]) : updates[r][i].request.docId = jobId[r]
       /\ inflight[r] # NoWrite => inflight[r].docId = jobId[r]
       /\ Accepted(r) => JobDoc(r) = AloneDoc(r)

\* both requests accepted and both tasks over, one job completed and the
\* other failed
C20_Witness ==
  /\ Accepted("r1") /\ Accepted("r2")
  /\ tpc["r1"] = "fulfilled" /\ tpc["r2"] = "fulfilled"
  /\ Status(JobDoc("r1")) = "completed"
  /\ Status(JobDoc("r2")) = "failed"

(***************************************************************************)
(* The generation client on its own: one call of generateItinerary         *)
(* (llm.js lines 13-112), that is retryWithBackoff(generateFn, 3, 2000,    *)
(* RetryableError), with the generative service answering each call.       *)
(***************************************************************************)
\* the answers of the generative service to one call
GenAnswers ==
  LLMAnswers
  \cup {LLMError(400, "bad request"), LLMError(404, "no such model"),
        LLMError(503, "overloaded"),
        LLMText(TRUE, FALSE, NotJSON), LLMText(FALSE, TRUE, NotJSON)}

InitGenerate ==
  /\ env = ValidEnv
  /\ InitJobs
  /\ probe \in {[phase |-> "call", durationDays |-> n, attempt |-> 0,
                 calls |-> 0, waits |-> <<>>, lastError |-> NoError,
                 result |-> NoError] : n \in {1, 4}}

\* a call of the generative service is answered: generateFn runs to its
\* end and retryWithBackoff returns, sleeps or rethrows
generateCall ==
  /\ probe.phase = "call"
  /\ \E answer \in GenAnswers :
       LET result == generateFn(answer)
           decision == retryDecision(result, probe.attempt, maxRetries,
                                     baseDelay)
           thrown == retryThrown(probe.lastError, result)
           called == [phase |-> "done", durationDays |-> probe.durationDays,
                      attempt |-> probe.attempt, calls |-> probe.calls + 1,
                      waits |-> probe.waits, lastError |-> probe.lastError,
                      result |-> probe.result, answer |-> answer]
       IN
       probe' =
         IF result.kind = "return" THEN [called EXCEPT !.result = result]
         ELSE IF decision.do = "sleep"
         THEN [called EXCEPT !.phase = "sleep", !.lastError = thrown,
                             !.waits = Append(@, decision.delay)]
         ELSE [called EXCEPT !.lastError = thrown, !.result = thrown]
  /\ UNCHANGED <<env, clock, store, hvars, inflight, tvars>>

\* the backoff sleep ends and the loop of retryWithBackoff goes round
generateSleepReturns ==
  /\ probe.phase = "sleep"
  /\ probe' =
       IF probe.attempt + 1 <= maxRetries
       THEN [probe EXCEPT !.attempt = @ + 1, !.phase = "call"]
       ELSE [probe EXCEPT !.attempt = @ + 1, !.phase = "done",
                          !.result = Return(Undefined)]
  /\ UNCHANGED <<env, clock, store, hvars, inflight, tvars>>

NextGenerate ==
  \/ generateCall
  \/ generateSleepReturns

SpecGenerate == InitGenerate /\ [][NextGenerate]_vars

\* a call has been answered and the client has not yet sent the next one
Answered == probe.calls > 0 /\ "answer" \in DOMAIN probe /\ probe.phase # "call"

\* the outcomes of a call that the specification calls retryable
RetryableOutcome(answer) ==
  /\ answer.kind = "http"
  /\ \/ answer.status = 429
     \/ answer.status >= 500
     \/ /\ ResponseOk(answer) /\ answer.content
        /\ \/ ~answer.hasOpen \/ ~answer.hasClose
           \/ ~answer.json.ok
           \/ ItineraryIssues(answer.json.value) # <<>>

\* the outcomes of a call that the specification calls fatal
FatalOutcome(answer) ==
  /\ answer.kind = "http"
  /\ \/ ~ResponseOk(answer) /\ answer.status # 429 /\ answer.status < 500
     \/ ResponseOk(answer) /\ ~answer.content

\* C21: after a call that ended with status 429, a status >= 500, text
\* without '[' or ']', text that is no JSON or data that fails
\* ItinerarySchema, the client waits and calls again as long as fewer than
\* 3 retries have been used; it gives up only after the fourth call.
C21_RetryableOutcomesAreRetried ==
  (Answered /\ RetryableOutcome(probe.answer))
    => IF probe.calls <= maxRetries
       THEN /\ probe.phase = "sleep"
            /\ Len(probe.waits) = probe.calls
       ELSE /\ probe.phase = "done"
            /\ probe.result.kind = "throw"
            /\ probe.calls = maxRetries + 1

C21_Witness ==
  /\ Answered
  /\ probe.answer = LLMText(TRUE, TRUE, JSON(ItineraryDayZero))
  /\ probe.phase = "sleep"
  /\ probe.calls = 3
  /\ probe.waits = <<2000, 4000, 8000>>

\* C22: after a call that ended with a non-2xx status other than 429 and
\* below 500, or with a 2xx response without content, generateItinerary
\* raises: there is no wait after that call and no further call.
C22_FatalOutcomesAreRaisedAtOnce ==
  (Answered /\ FatalOutcome(probe.answer))
    => /\ probe.phase = "done"
       /\ probe.result.kind = "throw"
       /\ ~probe.result.retryable
       /\ Len(probe.waits) = probe.calls - 1

C22_Witness ==
  /\ Answered
  /\ probe.answer = LLMNoContent
  /\ probe.phase = "done"
  /\ probe.calls = 1
  /\ probe.waits = <<>>
  /\ probe.result.kind = "throw"

\* C27: in an itinerary that generateItinerary returns, day i of the list
\* has day number i.
C27_ReturnedDaysAreNumberedInOrder ==
  (probe.phase = "done" /\ probe.result.kind = "return")
    => \A i \in 1..Len(probe.result.value.items) :
         Field(probe.result.value.items[i], "day") = Num(i)

(***************************************************************************)
(* Properties of the background task and of the creation phase.            *)
(***************************************************************************)
\* the error the latest update of r raised in updateDocument
LastUpdateError(ups) == updateDocumentResult(ups[Len(ups)].answer)

\* C23: when generation raises, or the completed update raises, the task
\* sends one update with status failed, completedAt now and error the
\* message of the error raised; when that update has returned or raised
\* the task is over, and it sends nothing afterwards.
C23_OneFailedUpdateThenNothing ==
  [][\A r \in Requests :
       /\ (tpc[r] = "gen" /\ generation'[r] = "raised") => tpc'[r] = "updF"
       /\ (tpc[r] = "updC" /\ tpc'[r] # "updC"
             /\ LastUpdateError(updates'[r]).kind = "throw")
            => tpc'[r] = "updF"
       /\ (tpc[r] # "updF" /\ tpc'[r] = "updF")
            => inflight'[r] =
                 [docId |-> jobId[r],
                  updateMask |-> {"status", "completedAt", "error"},
                  fields |->
                    [status |-> [stringValue |-> "failed"],
                     completedAt |-> [timestampValue |-> ISOString(clock)],
                     error |->
                       [stringValue |->
                          IF tpc[r] = "gen" THEN genRaised'[r].message
                          ELSE LastUpdateError(updates'[r]).message]]]
       /\ (tpc[r] = "updF" /\ tpc'[r] # "updF")
            => /\ tpc'[r] = "fulfilled"
               /\ inflight'[r] = NoWrite
               /\ Len(updates'[r]) = Len(updates[r]) + 1
       /\ tpc[r] = "fulfilled"
            => /\ tpc'[r] = "fulfilled"
               /\ inflight'[r] = NoWrite
               /\ updates'[r] = updates[r]]_vars

\* the completed update raised, the failed update was sent and raised too
C23_Witness ==
  \E r \in Requests :
    /\ tpc[r] = "fulfilled"
    /\ generation[r] = "returned"
    /\ Len(updates[r]) = 2
    /\ updates[r][2].request.fields.error
         = [stringValue |-> "Firestore update error: 503 - unavailable"]
    /\ LastUpdateError(updates[r]).kind = "throw"

\* the messages of the errors the creation phase of r can have ended with
CreationErrors(r) ==
  IF created[r] = "none"
  THEN {getAccessTokenResult(env.FIREBASE_SERVICE_ACCOUNT, a).message :
          a \in {b \in TokenAnswers :
                   getAccessTokenResult(env.FIREBASE_SERVICE_ACCOUNT, b).kind
                     = "throw"}}
  ELSE {createDocumentResult(a).message :
          a \in {b \in StoreAnswers \cup {StoreAnswerConflict} :
                   createDocumentResult(b).kind = "throw"}}

\* C24: a request that passed validation and whose token exchange or
\* createDocument call failed is answered with status 5xx and the error's
\* message as details, without a job id, and has no background task; a
\* handler that is over has returned a response.
C24_CreationErrorsAnswered5xx ==
  \A r \in Requests :
    /\ hpc[r] = "done" => response[r] # NoResponse
    /\ (hpc[r] = "done" /\ validated[r].ok /\ created[r] # "return")
         => /\ response[r].status >= 500 /\ response[r].status <= 599
            /\ DOMAIN response[r].body = {"error", "details"}
            /\ response[r].body.details \in CreationErrors(r)
            /\ tpc[r] = "none"

C24_Witness ==
  \E r \in Requests :
    /\ hpc[r] = "done"
    /\ created[r] = "throw"
    /\ response[r].status = 500
    /\ response[r].body.details = "Firestore create error: 503 - unavailable"

\* the fields of a job that are set at creation
CreationFields == {"destination", "durationDays", "createdAt"}

\* C25: no step changes the destination, durationDays or createdAt of a
\* stored document.
C25_CreationFieldsNeverChange ==
  [][\A id \in DocIds :
       store[id].exists
         => /\ store'[id].exists
            /\ \A k \in CreationFields :
                 /\ k \in DOMAIN store'[id].fields
                 /\ store'[id].fields[k] = store[id].fields[k]]_vars

C25_Witness ==
  \E id \in DocIds :
    /\ store[id].exists
    /\ Status(store[id]) = "completed"
    /\ store[id].fields.destination = [stringValue |-> "Kyoto, Japan"]
    /\ store[id].fields.durationDays = [integerValue |-> "4"]
    /\ store[id].fields.createdAt = [timestampValue |-> ISOString(0)]
    /\ store[id].fields.completedAt = [timestampValue |-> ISOString(1)]

\* the updates of r that the store applied (each names completedAt)
AppliedUpdates(r) == {i \in 1..Len(updates[r]) : updates[r][i].answer.applied}

\* C26: the stored completedAt is null exactly while the status is
\* processing, and at most one write of the job sets it.
C26_CompletedAtSetOnce ==
  \A r \in Requests :
    (HasJob(r) /\ JobDoc(r).exists)
      => /\ IsNull(JobDoc(r), "completedAt") <=> Status(JobDoc(r)) = "processing"
         /\ Cardinality(AppliedUpdates(r)) <= 1


\* the waits of retryWithBackoff(fn, 3, 2000): 2000, 4000, 8000 ms
BackoffWaits == [i \in 1..maxRetries |-> baseDelay * Pow2(i - 1)]

\* the task of r is over within the budget of calls, waits and updates
TaskOverWithinBudget(r) ==
  /\ tpc[r] = "fulfilled"
  /\ calls[r] >= 1 /\ calls[r] <= maxRetries + 1
  /\ waits[r] = SubSeq(BackoffWaits, 1, calls[r] - 1)
  /\ Len(updates[r]) >= 1 /\ Len(updates[r]) <= 2
  /\ \/ generation[r] = "returned"
     \/ generation[r] = "raised" /\ ~genRaised[r].retryable
     \/ generation[r] = "raised" /\ calls[r] = maxRetries + 1

\* C28: when every call returns, a started background task ends after at
\* most 4 calls of the generative service, with waits of 2000, 4000 and
\* 8000 ms between them, and at most 2 store updates; generation has
\* ended by a success, a fatal error or the last allowed call.
C28_TaskTerminatesWithinBudget ==
  \A r \in Served : (tpc[r] = "gen") ~> TaskOverWithinBudget(r)

\* four calls, three waits, the completed and the failed update
C28_Witness ==
  \E r \in Served :
    /\ TaskOverWithinBudget(r)
    /\ calls[r] = 4
    /\ waits[r] = <<2000, 4000, 8000>>
    /\ Len(updates[r]) = 2

\* a value that ItinerarySchema accepts, written out
ValidActivity(a) ==
  /\ a.type = "object"
  /\ Field(a, "time").type = "string"
  /\ Field(a, "time").s \in {"Morning", "Afternoon", "Evening"}
  /\ Field(a, "description").type = "string"
  /\ Field(a, "description").s # ""
  /\ Field(a, "location").type = "string"
  /\ Field(a, "location").s # ""

ValidDay(d) ==
  /\ d.type = "object"
  /\ Field(d, "day").type = "number"
  /\ ~Field(d, "day").half
  /\ Field(d, "day").n >= 1
  /\ Field(d, "theme").type = "string"
  /\ Field(d, "theme").s # ""
  /\ Field(d, "activities").type = "array"
  /\ Len(Field(d, "activities").items) >= 1
  /\ \A i \in 1..Len(Field(d, "activities").items) :
       ValidActivity(Field(d, "activities").items[i])

ValidItinerary(v) ==
  /\ v.type = "array"
  /\ Len(v.items) >= 1
  /\ \A i \in 1..Len(v.items) : ValidDay(v.items[i])

\* the requests of the task of r: those answered and the one in flight
TaskRequests(r) ==
  {updates[r][i].request : i \in 1..Len(updates[r])}
    \cup (IF tpc[r] \in {"updC", "updF"} THEN {inflight[r]} ELSE {})

\* C29: an update with status completed carries the itinerary that
\* generation returned in the same task, and that itinerary is a
\* non-empty list of valid days.
C29_CompletedOnlyWithValidItinerary ==
  \A r \in Requests :
    \A request \in TaskRequests(r) :
      request.fields.status = [stringValue |-> "completed"]
        => /\ generation[r] = "returned"
           /\ ValidItinerary(itinerary[r])
           /\ request.fields.itinerary = EncodeValue(itinerary[r])
           /\ request.fields.itinerary.arrayValue.values # <<>>

C29_Witness ==
  \E r \in Requests :
    /\ tpc[r] = "fulfilled"
    /\ Len(updates[r]) = 1
    /\ updates[r][1].request.fields.status = [stringValue |-> "completed"]
    /\ Len(itinerary[r].items) = 4
    /\ Status(JobDoc(r)) = "completed"

\* C30: the update mask of updateDocument names exactly the fields for
\* which the request body carries a value.
C30_MaskNamesExactlyTheFieldsSent ==
  probe.op = "update"
    => updateDocumentRequest(probe.docId, probe.data).updateMask
         = DOMAIN updateDocumentRequest(probe.docId, probe.data).fields

====
